---- MODULE Spec2Model ----
(***************************************************************************)
(* SchoolConnect: quiz attempt lifecycle, grading and quiz analytics.      *)
(*                                                                         *)
(* The model follows the route handlers                                    *)
(*   POST  /api/quizzes/[id]/attempt          (start / resume an attempt)  *)
(*   POST  /api/quiz-attempts/[id]/submit     (grade and complete)         *)
(*   PATCH /api/quiz-attempts/[id]/submit     (save progress)              *)
(*   PATCH /api/quizzes/[id]                  (update a quiz)              *)
(*   DELETE /api/quizzes/[id]                 (delete or archive a quiz)   *)
(* and the Mongoose schemas Quiz and QuizAttempt.  Every await on the      *)
(* document store is one atomic step of a request; requests of different   *)
(* slots interleave between their steps.                                   *)
(*                                                                         *)
(* Numbers: analytics averages are kept in hundredths (the code rounds     *)
(* them to two decimals); percentages are integers (Math.round).           *)
(***************************************************************************)
EXTENDS Integers, Sequences, FiniteSets, TLC

(***************************************************************************)
(* Bounds of the model.                                                    *)
(***************************************************************************)
MaxRequests == 3
MaxRespLen == 2
MaxClock == 2
MaxSubmissions == 7

(***************************************************************************)
(* Small helpers.                                                          *)
(***************************************************************************)
Range(f) == {f[i] : i \in DOMAIN f}

RECURSIVE SumSeq(_)
SumSeq(s) == IF s = <<>> THEN 0 ELSE Head(s) + SumSeq(Tail(s))

\* Math.round(num / den) for num >= 0, den > 0: halves round up.
RoundDiv(num, den) == (2 * num + den) \div (2 * den)

SeqsUpTo(S, n) == UNION {[1..k -> S] : k \in 0..n}

(***************************************************************************)
(* JavaScript values of the Mixed fields answer / correctAnswer.  A value  *)
(* carries its type, so that === (same type and same value) and String()   *)
(* can be modelled as the language defines them.                           *)
(***************************************************************************)
Num(n) == [t |-> "number", n |-> n, b |-> FALSE, s |-> <<>>]
Bool(b) == [t |-> "boolean", n |-> 0, b |-> b, s |-> <<>>]
Str(s) == [t |-> "string", n |-> 0, b |-> FALSE, s |-> s]
Undefined == [t |-> "undefined", n |-> 0, b |-> FALSE, s |-> <<>>]

\* x === y
StrictEquals(x, y) == x = y

\* Boolean(x): the falsy values are undefined, 0, false and "".
Truthy(x) ==
  CASE x.t = "undefined" -> FALSE
    [] x.t = "number" -> x.n # 0
    [] x.t = "boolean" -> x.b
    [] x.t = "string" -> x.s # <<>>

Digits == <<"0", "1", "2", "3", "4", "5", "6", "7", "8", "9">>

\* String(x), for the numbers 0..9 the model uses.
ToJSString(x) ==
  CASE x.t = "string" -> x.s
    [] x.t = "number" -> <<Digits[x.n + 1]>>
    [] x.t = "boolean" -> IF x.b THEN <<"t", "r", "u", "e">>
                          ELSE <<"f", "a", "l", "s", "e">>
    [] x.t = "undefined" -> <<"u", "n", "d", "e", "f", "i", "n", "e", "d">>

UpperCase == <<"A", "B", "C", "D", "E", "F", "G", "H", "I", "J", "K", "L", "M",
               "N", "O", "P", "Q", "R", "S", "T", "U", "V", "W", "X", "Y", "Z">>
LowerCase == <<"a", "b", "c", "d", "e", "f", "g", "h", "i", "j", "k", "l", "m",
               "n", "o", "p", "q", "r", "s", "t", "u", "v", "w", "x", "y", "z">>

LowerChar(c) ==
  IF \E i \in 1..26 : UpperCase[i] = c
  THEN LowerCase[CHOOSE i \in 1..26 : UpperCase[i] = c]
  ELSE c

\* String.prototype.toLowerCase
ToLowerCase(s) == [i \in 1..Len(s) |-> LowerChar(s[i])]

WhiteSpace == {" ", "\t", "\n"}

RECURSIVE TrimStart(_)
TrimStart(s) ==
  IF s # <<>> /\ Head(s) \in WhiteSpace THEN TrimStart(Tail(s)) ELSE s

RECURSIVE TrimEnd(_)
TrimEnd(s) ==
  IF s # <<>> /\ s[Len(s)] \in WhiteSpace
  THEN TrimEnd(SubSeq(s, 1, Len(s) - 1))
  ELSE s

\* String.prototype.trim
Trim(s) == TrimEnd(TrimStart(s))

\* String.prototype.includes: sub occurs in s as a contiguous run.
\* The empty string occurs in every string.
Includes(s, sub) ==
  \E i \in 0..(Len(s) - Len(sub)) :
    \A j \in 1..Len(sub) : s[i + j] = sub[j]

(***************************************************************************)
(* Quiz questions (QuestionSchema) and the response grader of the submit   *)
(* handler.                                                                *)
(***************************************************************************)
Question(id, type, correctAnswer, points) ==
  [id |-> id, type |-> type, correctAnswer |-> correctAnswer, points |-> points]

\* A field the client left out of the JSON body.
Missing == 0 - 1

\* One element of the responses array of a request body.
Response(questionId, answer, timeSpentSeconds) ==
  [questionId |-> questionId, answer |-> answer,
   timeSpentSeconds |-> timeSpentSeconds]

\* questions.find(q => q.id === response.questionId): the first match.
HasQuestion(questions, questionId) ==
  \E i \in DOMAIN questions : questions[i].id = questionId

FindQuestion(questions, questionId) ==
  questions[CHOOSE i \in DOMAIN questions :
              /\ questions[i].id = questionId
              /\ \A j \in DOMAIN questions :
                   questions[j].id = questionId => i <= j]

\* A grader whose short_answer case accepts only the equal string.
IsCorrectAnswerExact(question, answer) ==
  CASE question.type = "multiple_choice" ->
         StrictEquals(answer, question.correctAnswer)
    [] question.type = "true_false" ->
         StrictEquals(answer, question.correctAnswer)
    [] question.type = "short_answer" ->
         ToLowerCase(Trim(ToJSString(answer)))
           = ToLowerCase(Trim(ToJSString(question.correctAnswer)))
    [] OTHER -> FALSE

\* The switch on question.type of the submit handler.
IsCorrectAnswer(question, answer) ==
  CASE question.type = "multiple_choice" ->
         StrictEquals(answer, question.correctAnswer)
    [] question.type = "true_false" ->
         StrictEquals(answer, question.correctAnswer)
    [] question.type = "short_answer" ->
         LET studentAnswer == ToLowerCase(Trim(ToJSString(answer)))
             correctAnswer == ToLowerCase(Trim(ToJSString(question.correctAnswer)))
         IN \/ studentAnswer = correctAnswer
            \/ Includes(studentAnswer, correctAnswer)
            \/ Includes(correctAnswer, studentAnswer)
    [] OTHER -> FALSE

\* The callback of responses.map in the submit handler.
GradeResponse(questions, response) ==
  IF ~HasQuestion(questions, response.questionId)
  THEN [questionId |-> response.questionId, answer |-> response.answer,
        isCorrect |-> FALSE, pointsEarned |-> 0,
        timeSpentSeconds |-> response.timeSpentSeconds]
  ELSE LET question == FindQuestion(questions, response.questionId)
           isCorrect == IsCorrectAnswer(question, response.answer)
       IN [questionId |-> response.questionId, answer |-> response.answer,
           isCorrect |-> isCorrect,
           pointsEarned |-> IF isCorrect THEN question.points ELSE 0,
           timeSpentSeconds |-> IF response.timeSpentSeconds = Missing
                                THEN 0 ELSE response.timeSpentSeconds]

GradeResponses(questions, responses) ==
  [i \in DOMAIN responses |-> GradeResponse(questions, responses[i])]

\* totalScore accumulated by the map callback.
TotalScore(gradedResponses) ==
  SumSeq([i \in DOMAIN gradedResponses |-> gradedResponses[i].pointsEarned])

\* The map callback of the progress-save handler: ungraded placeholders.
PlaceholderResponses(responses) ==
  [i \in DOMAIN responses |->
     [questionId |-> responses[i].questionId, answer |-> responses[i].answer,
      isCorrect |-> FALSE, pointsEarned |-> 0,
      timeSpentSeconds |-> IF responses[i].timeSpentSeconds = Missing
                           THEN 0 ELSE responses[i].timeSpentSeconds]]

\* QuizSchema.pre('save'): totalPoints is the sum of the question points.
TotalPoints(questions) ==
  SumSeq([i \in DOMAIN questions |-> questions[i].points])

(***************************************************************************)
(* QuizAttempt documents.  Dates are clock values; 0 is an unset date.     *)
(***************************************************************************)
TerminalStatuses == {"completed", "abandoned", "time_expired"}

\* Schema validation run by save() before the pre('save') hooks: required
\* fields and the min / max validators of QuizAttemptSchema.
ValidResponse(r) ==
  /\ r.answer.t # "undefined"
  /\ r.timeSpentSeconds # Missing
  /\ r.timeSpentSeconds >= 0
  /\ r.pointsEarned >= 0

ValidAttempt(doc) ==
  /\ doc.attemptNumber >= 1
  /\ doc.score >= 0
  /\ doc.maxScore >= 1
  /\ doc.percentage >= 0
  /\ doc.percentage <= 100
  /\ doc.timeSpentMinutes >= 0
  /\ \A i \in DOMAIN doc.responses : ValidResponse(doc.responses[i])

\* QuizAttemptSchema.pre('save')
PreSave(doc, time) ==
  LET withPct == IF doc.maxScore > 0
                 THEN [doc EXCEPT !.percentage = RoundDiv(100 * doc.score, doc.maxScore)]
                 ELSE doc
  IN IF withPct.status = "completed" /\ withPct.completedAt = 0
     THEN [withPct EXCEPT !.completedAt = time]
     ELSE withPct

\* save() of a loaded document sends only the paths whose value differs
\* from the loaded one; the other fields keep what the store holds.
\* Non-empty arrays of sub-documents always count as modified (each
\* sub-document gets a fresh _id).
IsModified(field, loaded, doc) ==
  IF field = "responses"
  THEN ~(loaded.responses = <<>> /\ doc.responses = <<>>)
  ELSE doc[field] # loaded[field]

\* An update that sends the whole in-memory document.
WriteAll(stored, loaded, doc) == doc

WriteModified(stored, loaded, doc) ==
  [f \in DOMAIN stored |-> IF IsModified(f, loaded, doc) THEN doc[f] ELSE stored[f]]

(***************************************************************************)
(* Users, the quiz and the inputs the requests draw from.                  *)
(***************************************************************************)
Students == {"s1", "s2"}
Teacher == "t1"
Users == Students \cup {Teacher}
Role(u) == IF u \in Students THEN "student" ELSE "teacher"

Reqs == {"r1", "r2"}

QuizStatuses == {"draft", "published", "archived"}

\* Question lists a quiz can be given (create / PATCH body.questions).
QMultipleChoice(points) == Question("q1", "multiple_choice", Num(0), points)
QShortAnswer == Question("q2", "short_answer", Str(<<"a">>), 1)
QuestionBank == { <<QMultipleChoice(1), QShortAnswer>>,
                  <<QMultipleChoice(2), QShortAnswer>> }

\* settings.maxAttempts values (schema: 1..10).
MaxAttemptsValues == {1, 2}

\* Elements of a submitted responses array: q1 answered right, q1 answered
\* wrong, q2 left empty by the client (answer "").
ResponseValues ==
  { Response("q1", Num(0), 0), Response("q1", Num(1), 0),
    Response("q2", Str(<<>>), 0) }
ResponseLists == SeqsUpTo(ResponseValues, MaxRespLen)

\* Bodies of the periodic progress save.
ProgressLists == SeqsUpTo(ResponseValues, 1)

\* timeSpentMinutes of a request body (Missing: the field is left out).
TimeValues == {Missing, 1}

(***************************************************************************)
(* State.                                                                  *)
(***************************************************************************)
VARIABLES
  quiz,      \* the Quiz document (exists = FALSE once deleted)
  attempts,  \* the QuizAttempt collection; an attempt's _id is its index
  now,       \* the latest time read from the clock (new Date())
  pc,        \* per request slot: the await the request is suspended at
  loc,       \* per request slot: the handler's local variables
  res,       \* per request slot: the response of its last finished request
  issued,    \* number of requests issued so far
  ann        \* the announcement being created and its email run

vars == <<quiz, attempts, now, pc, loc, res, issued, ann>>

NoAttempt ==
  [student |-> "", attemptNumber |-> 0, status |-> "none", responses |-> <<>>,
   score |-> 0, maxScore |-> 0, percentage |-> 0, timeSpentMinutes |-> 0,
   completedAt |-> 0, submittedAt |-> 0]

NoQuiz ==
  [exists |-> FALSE, status |-> "draft", questions |-> <<>>, maxAttempts |-> 0,
   passingScore |-> Missing,
   totalPoints |-> 0, dueDate |-> 0, totalAttempts |-> 0, averageScore |-> 0,
   averageTimeMinutes |-> 0, completionRate |-> 0]

IdleLoc ==
  [op |-> "none", user |-> "", aid |-> 0, time |-> 0,
   quiz |-> NoQuiz, attempt |-> NoAttempt, count |-> 0, percentage |-> 0,
   limitAtIssue |-> FALSE, freshAtIssue |-> FALSE, overlapped |-> FALSE]

\* The result of getQuizStatistics when there is no completed attempt.
NoStatistics ==
  [totalAttempts |-> 0, uniqueStudents |-> 0, averageScore |-> 0,
   highestScore |-> 0, lowestScore |-> 0, passRate |-> 0,
   averageTimeMinutes |-> 0]

\* limitAtIssue, freshAtIssue and overlapped record facts about the moment a
\* start request was issued; no handler reads them.  statistics is the
\* quiz.statistics of the body of a GET response.
NoRes ==
  [op |-> "none", status |-> 0, aid |-> 0,
   limitAtIssue |-> FALSE, freshAtIssue |-> FALSE, overlapped |-> FALSE,
   statistics |-> NoStatistics]

\* No announcement request has been made.  n is the number of users of the
\* audience, i the index of the batch loop; attempted, failed and recorded
\* are sets of recipients (numbered 1..n in the order of User.find).
NoAnnouncement ==
  [pc |-> "idle", stored |-> FALSE, status |-> "draft", sendEmail |-> FALSE,
   emailSent |-> FALSE, n |-> 0, i |-> 0, created |-> FALSE,
   attempted |-> {}, failed |-> {}, recorded |-> {}, res |-> 0]

\* A published quiz as POST /api/quizzes leaves it after a publish;
\* settings.passingScore has no default and is unset.
InitQuiz(questions, maxAttempts) ==
  [exists |-> TRUE, status |-> "published", questions |-> questions,
   maxAttempts |-> maxAttempts, passingScore |-> Missing,
   totalPoints |-> TotalPoints(questions),
   dueDate |-> 0, totalAttempts |-> 0, averageScore |-> 0,
   averageTimeMinutes |-> 0, completionRate |-> 0]

Init ==
  /\ \E m \in MaxAttemptsValues :
       quiz = InitQuiz(<<QMultipleChoice(1), QShortAnswer>>, m)
  /\ attempts = <<>>
  /\ now = 1
  /\ pc = [r \in Reqs |-> "idle"]
  /\ loc = [r \in Reqs |-> IdleLoc]
  /\ res = [r \in Reqs |-> NoRes]
  /\ issued = 0
  /\ ann = NoAnnouncement

(***************************************************************************)
(* Queries on the QuizAttempt collection.                                  *)
(***************************************************************************)
AttemptIds == DOMAIN attempts

\* A count that leaves out the student filter.
getAttemptCountOfAllStudents(student) ==
  Cardinality({a \in AttemptIds : attempts[a].status \in TerminalStatuses})

\* QuizAttempt.getStudentAttemptCount
getStudentAttemptCount(student) ==
  Cardinality({a \in AttemptIds : /\ attempts[a].student = student
                                  /\ attempts[a].status \in TerminalStatuses})

\* QuizAttempt.findOne({student, quiz, status: 'in_progress'})
InProgressIds(student) ==
  {a \in AttemptIds : /\ attempts[a].student = student
                      /\ attempts[a].status = "in_progress"}

\* A collection without the unique index accepts every insert.
NoUniqueIndex(student, attemptNumber) == FALSE

\* The unique index {student, quiz, attemptNumber}.
DuplicateKey(student, attemptNumber) ==
  \E a \in AttemptIds : /\ attempts[a].student = student
                        /\ attempts[a].attemptNumber = attemptNumber

(***************************************************************************)
(* Request bookkeeping.                                                    *)
(***************************************************************************)
\* Requests take the lowest free slot (the slots are interchangeable).
FreeSlot(r) ==
  /\ pc[r] = "idle"
  /\ \A o \in Reqs : pc[o] = "idle" => \/ o = r
                                      \/ (r = "r1" /\ o = "r2")

\* A request enters its handler.
Begin(r, op, user) ==
  [IdleLoc EXCEPT !.op = op, !.user = user]

\* Start requests of the same student whose executions overlap are marked.
Overlaps(o, op, user) ==
  pc[o] # "idle" /\ op = "start" /\ loc[o].op = "start" /\ loc[o].user = user

Marked(r, l) ==
  [o \in Reqs |->
     IF o # r /\ Overlaps(o, l.op, l.user)
     THEN [loc[o] EXCEPT !.overlapped = TRUE] ELSE loc[o]]

MarkedSelf(r, l) ==
  [l EXCEPT !.overlapped = @ \/ \E o \in Reqs \ {r} : Overlaps(o, l.op, l.user)]

ResOf(l, status, aid) ==
  [op |-> l.op, status |-> status, aid |-> aid,
   limitAtIssue |-> l.limitAtIssue, freshAtIssue |-> l.freshAtIssue,
   overlapped |-> l.overlapped, statistics |-> NoStatistics]

\* A request returns a response.
Respond(r, l, status, aid) ==
  /\ pc' = [pc EXCEPT ![r] = "idle"]
  /\ loc' = [loc EXCEPT ![r] = IdleLoc]
  /\ res' = [res EXCEPT ![r] = ResOf(l, status, aid)]

Goto(r, l, label) ==
  /\ pc' = [pc EXCEPT ![r] = label]
  /\ loc' = [loc EXCEPT ![r] = l]
  /\ res' = res

\* The first step of a request: as Respond / Goto, and the overlap marks.
RespondFirst(r, l, status, aid) ==
  /\ pc' = [pc EXCEPT ![r] = "idle"]
  /\ loc' = [Marked(r, l) EXCEPT ![r] = IdleLoc]
  /\ res' = [res EXCEPT ![r] = ResOf(MarkedSelf(r, l), status, aid)]

GotoFirst(r, l, label) ==
  /\ pc' = [pc EXCEPT ![r] = label]
  /\ loc' = [Marked(r, l) EXCEPT ![r] = MarkedSelf(r, l)]
  /\ res' = [res EXCEPT ![r] = NoRes]

(***************************************************************************)
(* POST /api/quizzes/[id]/attempt : start or resume an attempt.            *)
(***************************************************************************)
\* Number of the student's attempts in a terminal status (read only by the
\* limitAtIssue record of a start request).
TerminalCount(student) ==
  Cardinality({a \in AttemptIds :
                 /\ attempts[a].student = student
                 /\ attempts[a].status \in {"completed", "abandoned", "time_expired"}})

\* completedAttempts >= quiz.settings.maxAttempts
AttemptLimitExceeded(completedAttempts, maxAttempts) ==
  completedAttempts > maxAttempts

AttemptLimitReached(completedAttempts, maxAttempts) ==
  completedAttempts >= maxAttempts

\* The times a read of the clock can return: time does not run backwards.
ClockReads == now..MaxClock

\* A start handler without the due-date check.
StartLoadQuizNoDeadline(r, user, date) ==
  /\ FreeSlot(r)
  /\ issued < MaxRequests
  /\ issued' = issued + 1
  /\ date \in ClockReads
  /\ now' = IF /\ Role(user) = "student"
               /\ quiz.exists
               /\ quiz.status = "published"
               /\ quiz.dueDate # 0
            THEN date ELSE now
  /\ UNCHANGED <<quiz, attempts, ann>>
  /\ LET l == [Begin(r, "start", user) EXCEPT
                 !.quiz = quiz,
                 !.limitAtIssue = /\ quiz.exists
                                  /\ TerminalCount(user) >= quiz.maxAttempts,
                 !.freshAtIssue = InProgressIds(user) = {}]
     IN IF Role(user) # "student" THEN RespondFirst(r, l, 403, 0)
        ELSE IF ~quiz.exists THEN RespondFirst(r, l, 404, 0)
        ELSE IF quiz.status # "published" THEN RespondFirst(r, l, 403, 0)
        ELSE GotoFirst(r, l, "start_count")

\* Role check, Quiz.findById, status and due-date checks.  date is the time
\* new Date() returns; the clock is read only when the quiz has a due date.
StartLoadQuiz(r, user, date) ==
  /\ FreeSlot(r)
  /\ issued < MaxRequests
  /\ issued' = issued + 1
  /\ date \in ClockReads
  /\ now' = IF /\ Role(user) = "student"
               /\ quiz.exists
               /\ quiz.status = "published"
               /\ quiz.dueDate # 0
            THEN date ELSE now
  /\ UNCHANGED <<quiz, attempts, ann>>
  /\ LET l == [Begin(r, "start", user) EXCEPT
                 !.quiz = quiz,
                 !.limitAtIssue = /\ quiz.exists
                                  /\ TerminalCount(user) >= quiz.maxAttempts,
                 !.freshAtIssue = InProgressIds(user) = {}]
     IN IF Role(user) # "student" THEN RespondFirst(r, l, 403, 0)
        ELSE IF ~quiz.exists THEN RespondFirst(r, l, 404, 0)
        ELSE IF quiz.status # "published" THEN RespondFirst(r, l, 403, 0)
        ELSE IF quiz.dueDate # 0 /\ date > quiz.dueDate THEN RespondFirst(r, l, 403, 0)
        ELSE GotoFirst(r, l, "start_count")

\* getStudentAttemptCount and the maxAttempts check.
StartCount(r) ==
  /\ pc[r] = "start_count"
  /\ UNCHANGED <<quiz, attempts, now, issued, ann>>
  /\ LET completedAttempts == getStudentAttemptCount(loc[r].user)
     IN IF AttemptLimitReached(completedAttempts, loc[r].quiz.maxAttempts)
        THEN Respond(r, loc[r], 403, 0)
        ELSE Goto(r, [loc[r] EXCEPT !.count = completedAttempts], "start_find")

\* A start that does not look for an attempt in progress.
StartFindNothing(r) ==
  /\ pc[r] = "start_find"
  /\ UNCHANGED <<quiz, attempts, now, issued, ann>>
  /\ Goto(r, loc[r], "start_insert")

\* findOne of an in_progress attempt: resume it when there is one.
StartFindExisting(r) ==
  /\ pc[r] = "start_find"
  /\ UNCHANGED <<quiz, attempts, now, issued, ann>>
  /\ IF InProgressIds(loc[r].user) # {}
     THEN \E a \in InProgressIds(loc[r].user) : Respond(r, loc[r], 200, a)
     ELSE Goto(r, loc[r], "start_insert")

\* new QuizAttempt({...}).save(): validation, then the insert, which the
\* unique index rejects with a duplicate-key error (caught: 500).
NewAttempt(l) ==
  [student |-> l.user, attemptNumber |-> l.count + 1, status |-> "in_progress",
   responses |-> <<>>, score |-> 0, maxScore |-> l.quiz.totalPoints,
   percentage |-> 0, timeSpentMinutes |-> 0, completedAt |-> 0,
   submittedAt |-> 0]

StartInsert(r) ==
  /\ pc[r] = "start_insert"
  /\ UNCHANGED <<quiz, now, issued, ann>>
  /\ LET doc == NewAttempt(loc[r])
     IN IF ~ValidAttempt(doc) \/ DuplicateKey(doc.student, doc.attemptNumber)
        THEN /\ attempts' = attempts
             /\ Respond(r, loc[r], 500, 0)
        ELSE /\ attempts' = Append(attempts, PreSave(doc, now))
             /\ Respond(r, loc[r], 201, Len(attempts) + 1)

(***************************************************************************)
(* POST /api/quiz-attempts/[id]/submit : grade and complete an attempt.    *)
(***************************************************************************)
\* A submit handler without the owner check.
SubmitLoadAnyStudent(r, user, aid) ==
  /\ FreeSlot(r)
  /\ issued < MaxRequests
  /\ issued' = issued + 1
  /\ UNCHANGED <<quiz, attempts, now, ann>>
  /\ LET l == [Begin(r, "submit", user) EXCEPT !.aid = aid]
     IN IF Role(user) # "student" THEN RespondFirst(r, l, 403, aid)
        ELSE IF aid \notin AttemptIds THEN RespondFirst(r, l, 404, aid)
        ELSE IF attempts[aid].status # "in_progress" THEN RespondFirst(r, l, 400, aid)
        ELSE IF ~quiz.exists THEN RespondFirst(r, l, 500, aid)
        ELSE GotoFirst(r, [l EXCEPT !.attempt = attempts[aid], !.quiz = quiz],
                  "submit_save")

\* Role check, QuizAttempt.findById(...).populate('quiz'), owner and status
\* checks.  aid = Len(attempts) + 1 is an id no attempt has.
SubmitLoad(r, user, aid) ==
  /\ FreeSlot(r)
  /\ issued < MaxRequests
  /\ issued' = issued + 1
  /\ UNCHANGED <<quiz, attempts, now, ann>>
  /\ LET l == [Begin(r, "submit", user) EXCEPT !.aid = aid]
     IN IF Role(user) # "student" THEN RespondFirst(r, l, 403, aid)
        ELSE IF aid \notin AttemptIds THEN RespondFirst(r, l, 404, aid)
        ELSE IF attempts[aid].student # user THEN RespondFirst(r, l, 403, aid)
        ELSE IF attempts[aid].status # "in_progress" THEN RespondFirst(r, l, 400, aid)
        \* populate left attempt.quiz null: quiz.questions throws
        ELSE IF ~quiz.exists THEN RespondFirst(r, l, 500, aid)
        ELSE GotoFirst(r, [l EXCEPT !.attempt = attempts[aid], !.quiz = quiz],
                  "submit_save")

\* percentage as the handler computes it, from the quiz's totalPoints.
HandlerPercentage(totalScore, totalPoints) ==
  IF totalPoints > 0 THEN RoundDiv(100 * totalScore, totalPoints) ELSE 0

\* A submit that also takes the quiz's current totalPoints as maxScore.
SubmittedAttemptRescaled(attempt, questions, totalPoints, responses, time, date) ==
  LET gradedResponses == GradeResponses(questions, responses)
      totalScore == TotalScore(gradedResponses)
  IN [attempt EXCEPT
        !.responses = gradedResponses,
        !.score = totalScore,
        !.maxScore = totalPoints,
        !.percentage = HandlerPercentage(totalScore, totalPoints),
        !.timeSpentMinutes = IF time = Missing THEN 0 ELSE time,
        !.status = "completed",
        !.completedAt = date,
        !.submittedAt = date]

\* A submit that marks an attempt without responses as abandoned.
SubmittedAttemptAbandoning(attempt, questions, totalPoints, responses, time, date) ==
  LET gradedResponses == GradeResponses(questions, responses)
      totalScore == TotalScore(gradedResponses)
  IN [attempt EXCEPT
        !.responses = gradedResponses,
        !.score = totalScore,
        !.percentage = HandlerPercentage(totalScore, totalPoints),
        !.timeSpentMinutes = IF time = Missing THEN 0 ELSE time,
        !.status = IF responses = <<>> THEN "abandoned" ELSE "completed",
        !.completedAt = date,
        !.submittedAt = date]

\* The attempt document as the handler leaves it before save().
SubmittedAttempt(attempt, questions, totalPoints, responses, time, date) ==
  LET gradedResponses == GradeResponses(questions, responses)
      totalScore == TotalScore(gradedResponses)
  IN [attempt EXCEPT
        !.responses = gradedResponses,
        !.score = totalScore,
        !.percentage = HandlerPercentage(totalScore, totalPoints),
        !.timeSpentMinutes = IF time = Missing THEN 0 ELSE time,
        !.status = "completed",
        !.completedAt = date,
        !.submittedAt = date]

\* Grading of the body, then attempt.save(): validation, pre('save'), and
\* the update of the modified paths.  A validation error is caught: 500.
\* date is the time new Date() returns.
SubmitSave(r, responses, time, date) ==
  /\ pc[r] = "submit_save"
  /\ date \in ClockReads
  /\ now' = date
  /\ UNCHANGED <<quiz, issued, ann>>
  /\ LET l == loc[r]
           doc == SubmittedAttempt(l.attempt, l.quiz.questions,
                                   l.quiz.totalPoints, responses, time, date)
       IN IF ~ValidAttempt(doc)
          THEN /\ attempts' = attempts
               /\ Respond(r, l, 500, l.aid)
          ELSE /\ attempts' = [attempts EXCEPT ![l.aid] =
                                 WriteModified(attempts[l.aid], l.attempt,
                                               PreSave(doc, date))]
               /\ Goto(r, [l EXCEPT !.percentage = doc.percentage,
                                    !.time = doc.timeSpentMinutes,
                                    !.attempt = NoAttempt, !.quiz = NoQuiz],
                       "submit_stats_read")

\* A submit that undoes its save when the analytics update fails.
SubmitAnalyticsReadUndo(r) ==
  /\ pc[r] = "submit_stats_read"
  /\ UNCHANGED <<quiz, now, issued, ann>>
  /\ \/ /\ attempts' = [attempts EXCEPT ![loc[r].aid].status = "in_progress"]
        /\ Respond(r, loc[r], 500, loc[r].aid)
     \/ /\ attempts' = attempts
        /\ IF ~quiz.exists
           THEN Respond(r, loc[r], 200, loc[r].aid)
           ELSE Goto(r, [loc[r] EXCEPT !.quiz = quiz], "submit_stats_write")

\* Quiz.updateAnalytics, first await: this.findById(quizId).  A store error
\* rejects the await; the handler's catch answers 500.
SubmitAnalyticsRead(r) ==
  /\ pc[r] = "submit_stats_read"
  /\ UNCHANGED <<quiz, attempts, now, issued, ann>>
  /\ \/ Respond(r, loc[r], 500, loc[r].aid)
     \/ IF ~quiz.exists
        THEN Respond(r, loc[r], 200, loc[r].aid)
        ELSE Goto(r, [loc[r] EXCEPT !.quiz = quiz], "submit_stats_write")

\* An aggregator that averages the old average with the new value.
NewAnalyticsUnweighted(q, score, timeMinutes, completed) ==
  LET newTotalAttempts == q.totalAttempts + 1
      completedAttempts == RoundDiv(q.completionRate * q.totalAttempts, 10000)
                           + (IF completed THEN 1 ELSE 0)
  IN [totalAttempts |-> newTotalAttempts,
      averageScore |-> RoundDiv(q.averageScore + 100 * score, 2),
      averageTimeMinutes |-> RoundDiv(q.averageTimeMinutes + 100 * timeMinutes, 2),
      completionRate |-> RoundDiv(10000 * completedAttempts, newTotalAttempts)]

\* The running aggregates of Quiz.updateAnalytics, in hundredths.
NewAnalytics(q, score, timeMinutes, completed) ==
  LET newTotalAttempts == q.totalAttempts + 1
      completedAttempts == RoundDiv(q.completionRate * q.totalAttempts, 10000)
                           + (IF completed THEN 1 ELSE 0)
  IN [totalAttempts |-> newTotalAttempts,
      averageScore |->
        RoundDiv(q.averageScore * q.totalAttempts + 100 * score, newTotalAttempts),
      averageTimeMinutes |->
        RoundDiv(q.averageTimeMinutes * q.totalAttempts + 100 * timeMinutes,
                 newTotalAttempts),
      completionRate |-> RoundDiv(10000 * completedAttempts, newTotalAttempts)]

\* Quiz.updateAnalytics, second await: this.findByIdAndUpdate(quizId, ...),
\* then the 200 response of the submit handler.
SubmitAnalyticsWrite(r) ==
  /\ pc[r] = "submit_stats_write"
  /\ UNCHANGED <<attempts, now, issued, ann>>
  /\ \/ /\ quiz' = quiz
        /\ Respond(r, loc[r], 500, loc[r].aid)
     \/ /\ LET a == NewAnalytics(loc[r].quiz, loc[r].percentage, loc[r].time, TRUE)
           IN quiz' = IF quiz.exists
                      THEN [quiz EXCEPT
                              !.totalAttempts = a.totalAttempts,
                              !.averageScore = a.averageScore,
                              !.averageTimeMinutes = a.averageTimeMinutes,
                              !.completionRate = a.completionRate]
                      ELSE quiz
        /\ Respond(r, loc[r], 200, loc[r].aid)

(***************************************************************************)
(* PATCH /api/quiz-attempts/[id]/submit : save progress.                   *)
(***************************************************************************)
ProgressLoad(r, user, aid) ==
  /\ FreeSlot(r)
  /\ issued < MaxRequests
  /\ issued' = issued + 1
  /\ UNCHANGED <<quiz, attempts, now, ann>>
  /\ LET l == [Begin(r, "progress", user) EXCEPT !.aid = aid]
     IN IF aid \notin AttemptIds THEN RespondFirst(r, l, 404, aid)
        ELSE IF attempts[aid].student # user THEN RespondFirst(r, l, 403, aid)
        ELSE IF attempts[aid].status # "in_progress" THEN RespondFirst(r, l, 400, aid)
        ELSE GotoFirst(r, [l EXCEPT !.attempt = attempts[aid]], "progress_save")

\* A progress save that adds the body's responses to the stored ones.
ProgressAttemptAppending(attempt, hasResponses, responses, time) ==
  [attempt EXCEPT
     !.responses = IF hasResponses THEN @ \o PlaceholderResponses(responses) ELSE @,
     !.timeSpentMinutes = IF time # Missing THEN time ELSE @]

\* The attempt document as the handler leaves it before save().
\* hasResponses: body.responses is present.
ProgressAttempt(attempt, hasResponses, responses, time) ==
  [attempt EXCEPT
     !.responses = IF hasResponses THEN PlaceholderResponses(responses) ELSE @,
     !.timeSpentMinutes = IF time # Missing THEN time ELSE @]

ProgressSave(r, hasResponses, responses, time) ==
  /\ pc[r] = "progress_save"
  /\ UNCHANGED <<quiz, now, issued, ann>>
  /\ LET l == loc[r]
         doc == ProgressAttempt(l.attempt, hasResponses, responses, time)
     IN IF ~ValidAttempt(doc)
        THEN /\ attempts' = attempts
             /\ Respond(r, l, 500, l.aid)
        ELSE /\ attempts' = [attempts EXCEPT ![l.aid] =
                               WriteModified(attempts[l.aid], l.attempt,
                                             PreSave(doc, now))]
             /\ Respond(r, l, 200, l.aid)

(***************************************************************************)
(* PATCH /api/quizzes/[id] : the author updates the quiz.  provided is the *)
(* set of fields the body carries; the others keep the stored value.       *)
(***************************************************************************)
QuizUpdateFields == {"questions", "status", "settings", "dueDate"}

\* body.dueDate: 0 is null (the due date is removed).
DueDateValues == {0, 1}

\* QuizSchema.pre('save')
QuizPreSave(q) == [q EXCEPT !.totalPoints = TotalPoints(q.questions)]

UpdatedQuiz(q, provided, questions, status, maxAttempts, dueDate) ==
  QuizPreSave(
    [q EXCEPT
       !.questions = IF "questions" \in provided THEN questions ELSE @,
       !.status = IF "status" \in provided /\ status \in QuizStatuses
                  THEN status ELSE @,
       !.maxAttempts = IF "settings" \in provided THEN maxAttempts ELSE @,
       !.dueDate = IF "dueDate" \in provided THEN dueDate ELSE @])

QuizUpdate(r, provided, questions, status, maxAttempts, dueDate) ==
  /\ FreeSlot(r)
  /\ issued < MaxRequests
  /\ issued' = issued + 1
  /\ UNCHANGED <<attempts, now, ann>>
  /\ LET l == Begin(r, "quiz_update", Teacher)
     IN IF ~quiz.exists
        THEN /\ quiz' = quiz
             /\ RespondFirst(r, l, 404, 0)
        ELSE IF "questions" \in provided /\ Len(questions) = 0
        THEN /\ quiz' = quiz
             /\ RespondFirst(r, l, 400, 0)
        ELSE /\ quiz' = UpdatedQuiz(quiz, provided, questions, status,
                                    maxAttempts, dueDate)
             /\ RespondFirst(r, l, 200, 0)

(***************************************************************************)
(* DELETE /api/quizzes/[id] : delete the quiz, or archive it when attempts *)
(* reference it.                                                           *)
(***************************************************************************)
DeleteLoad(r) ==
  /\ FreeSlot(r)
  /\ issued < MaxRequests
  /\ issued' = issued + 1
  /\ UNCHANGED <<quiz, attempts, now, ann>>
  /\ LET l == Begin(r, "quiz_delete", Teacher)
     IN IF ~quiz.exists THEN RespondFirst(r, l, 404, 0)
        ELSE GotoFirst(r, [l EXCEPT !.quiz = quiz], "delete_count")

\* QuizAttempt.countDocuments({quiz})
DeleteCount(r) ==
  /\ pc[r] = "delete_count"
  /\ UNCHANGED <<quiz, attempts, now, issued, ann>>
  /\ Goto(r, [loc[r] EXCEPT !.count = Len(attempts)], "delete_apply")

\* A DELETE that removes the quiz whatever the attempt count.
DeleteApplyAlways(r) ==
  /\ pc[r] = "delete_apply"
  /\ UNCHANGED <<attempts, now, issued, ann>>
  /\ quiz' = [NoQuiz EXCEPT !.exists = FALSE]
  /\ Respond(r, loc[r], 200, 0)

\* quiz.save() with status archived (a deleted document cannot be saved:
\* the error is caught, 500), or Quiz.findByIdAndDelete.
DeleteApply(r) ==
  /\ pc[r] = "delete_apply"
  /\ UNCHANGED <<attempts, now, issued, ann>>
  /\ IF loc[r].count > 0
     THEN IF ~quiz.exists
          THEN /\ quiz' = quiz
               /\ Respond(r, loc[r], 500, 0)
          ELSE /\ quiz' = IF loc[r].quiz.status # "archived"
                          THEN [quiz EXCEPT !.status = "archived"]
                          ELSE quiz
               /\ Respond(r, loc[r], 200, 0)
     ELSE /\ quiz' = [NoQuiz EXCEPT !.exists = FALSE]
          /\ Respond(r, loc[r], 200, 0)

(***************************************************************************)
(* The system.                                                             *)
(***************************************************************************)
Next ==
  \/ \E r \in Reqs, u \in Users, date \in ClockReads : StartLoadQuiz(r, u, date)
  \/ \E r \in Reqs : StartCount(r)
  \/ \E r \in Reqs : StartFindExisting(r)
  \/ \E r \in Reqs : StartInsert(r)
  \/ \E r \in Reqs, u \in Users, a \in 1..(Len(attempts) + 1) : SubmitLoad(r, u, a)
  \/ \E r \in Reqs, responses \in ResponseLists, time \in TimeValues,
        date \in ClockReads :
       SubmitSave(r, responses, time, date)
  \/ \E r \in Reqs : SubmitAnalyticsRead(r)
  \/ \E r \in Reqs : SubmitAnalyticsWrite(r)
  \/ \E r \in Reqs, u \in Users, a \in 1..(Len(attempts) + 1) : ProgressLoad(r, u, a)
  \/ \E r \in Reqs, responses \in ProgressLists, time \in TimeValues :
       ProgressSave(r, TRUE, responses, time)
  \/ \E r \in Reqs, time \in TimeValues : ProgressSave(r, FALSE, <<>>, time)
  \/ \E r \in Reqs, questions \in QuestionBank :
       QuizUpdate(r, {"questions"}, questions, quiz.status, quiz.maxAttempts, 0)
  \/ \E r \in Reqs, status \in QuizStatuses :
       QuizUpdate(r, {"status"}, quiz.questions, status, quiz.maxAttempts, 0)
  \/ \E r \in Reqs, maxAttempts \in MaxAttemptsValues :
       QuizUpdate(r, {"settings"}, quiz.questions, quiz.status, maxAttempts, 0)
  \/ \E r \in Reqs, dueDate \in DueDateValues :
       QuizUpdate(r, {"dueDate"}, quiz.questions, quiz.status, quiz.maxAttempts, dueDate)
  \/ \E r \in Reqs : DeleteLoad(r)
  \/ \E r \in Reqs : DeleteCount(r)
  \/ \E r \in Reqs : DeleteApply(r)

Spec == Init /\ [][Next]_vars

(***************************************************************************)
(* The analytics as functions of the submissions: completed submissions    *)
(* made one after the other, and the statistics the author's GET returns.  *)
(***************************************************************************)
\* (percentage, timeSpentMinutes) of a submission.
SubmissionValues == {<<80, 10>>, <<60, 20>>}

\* settings.passingScore: unset, or a number in 0..100.
PassingScoreValues == {Missing, 0, 60}

\* A quiz of five questions worth one point each, ten attempts allowed.
AnalyticsQuestionIds == <<"q1", "q2", "q3", "q4", "q5">>

AnalyticsQuestions ==
  [i \in DOMAIN AnalyticsQuestionIds |->
     Question(AnalyticsQuestionIds[i], "short_answer", Str(<<"a">>), 1)]

\* The completed attempt a submission with the first `score` answers right
\* leaves in the collection.
CompletedAttempt(student, attemptNumber, questions, score, time, date) ==
  LET responses == [i \in DOMAIN questions |->
                      Response(questions[i].id,
                               IF i <= score THEN Str(<<"a">>) ELSE Str(<<"b">>), 0)]
  IN PreSave(SubmittedAttempt(
               [student |-> student, attemptNumber |-> attemptNumber,
                status |-> "in_progress", responses |-> <<>>, score |-> 0,
                maxScore |-> TotalPoints(questions), percentage |-> 0,
                timeSpentMinutes |-> 0, completedAt |-> 0, submittedAt |-> 0],
               questions, TotalPoints(questions), responses, time, date), date)

\* passingScore || 70
DefaultPassingScore == 70

PassingScore(q) ==
  IF q.exists /\ q.passingScore # Missing /\ q.passingScore # 0
  THEN q.passingScore ELSE DefaultPassingScore

MaxOf(S) == CHOOSE x \in S : \A y \in S : y <= x
MinOf(S) == CHOOSE x \in S : \A y \in S : x <= y

\* QuizAttempt.getQuizStatistics
getQuizStatistics ==
  LET completed == SelectSeq(attempts, LAMBDA a : a.status = "completed")
      scores == [i \in DOMAIN completed |-> completed[i].percentage]
      times == [i \in DOMAIN completed |-> completed[i].timeSpentMinutes]
      passingScore == PassingScore(quiz)
      passedAttempts == Cardinality({i \in DOMAIN completed :
                                       completed[i].percentage >= passingScore})
  IN IF Len(completed) = 0 THEN NoStatistics
     ELSE [totalAttempts |-> Len(completed),
           uniqueStudents |-> Cardinality({completed[i].student : i \in DOMAIN completed}),
           averageScore |-> RoundDiv(SumSeq(scores), Len(scores)),
           highestScore |-> MaxOf(Range(scores)),
           lowestScore |-> MinOf(Range(scores)),
           passRate |-> RoundDiv(passedAttempts * 100, Len(completed)),
           averageTimeMinutes |-> RoundDiv(SumSeq(times), Len(times))]

\* One student starts an attempt, submits it and the submit handler runs
\* Quiz.updateAnalytics to its end, before the next submission begins.
SequentialSubmission(percentage, timeMinutes) ==
  /\ quiz.exists
  /\ Len(attempts) < MaxSubmissions
  /\ LET questions == quiz.questions
         score == (percentage * TotalPoints(questions)) \div 100
         doc == CompletedAttempt("s1", Len(attempts) + 1, questions, score,
                                 timeMinutes, now)
         a == NewAnalytics(quiz, doc.percentage, doc.timeSpentMinutes, TRUE)
     IN /\ attempts' = Append(attempts, doc)
        /\ quiz' = [quiz EXCEPT
                      !.totalAttempts = a.totalAttempts,
                      !.averageScore = a.averageScore,
                      !.averageTimeMinutes = a.averageTimeMinutes,
                      !.completionRate = a.completionRate]
  /\ UNCHANGED <<now, pc, loc, res, issued, ann>>

\* GET /api/quizzes/[id] by the quiz's author: the body carries
\* quiz.statistics.
GetQuiz(r) ==
  /\ FreeSlot(r)
  /\ UNCHANGED <<quiz, attempts, now, pc, loc, issued, ann>>
  /\ LET l == Begin(r, "quiz_get", Teacher)
     IN res' = [res EXCEPT ![r] =
                  IF ~quiz.exists THEN ResOf(l, 404, 0)
                  ELSE [ResOf(l, 200, 0) EXCEPT !.statistics = getQuizStatistics]]

InitAnalytics ==
  /\ \E passingScore \in PassingScoreValues :
       quiz = [InitQuiz(AnalyticsQuestions, 10) EXCEPT !.passingScore = passingScore]
  /\ attempts = <<>>
  /\ now = 1
  /\ pc = [r \in Reqs |-> "idle"]
  /\ loc = [r \in Reqs |-> IdleLoc]
  /\ res = [r \in Reqs |-> NoRes]
  /\ issued = 0
  /\ ann = NoAnnouncement

NextAnalytics ==
  \/ \E v \in SubmissionValues : SequentialSubmission(v[1], v[2])
  \/ \E r \in Reqs : GetQuiz(r)

SpecAnalytics == InitAnalytics /\ [][NextAnalytics]_vars

(***************************************************************************)
(* POST /api/announcements : create an announcement; when it is published, *)
(* create the recipient records and send the emails in batches.            *)
(***************************************************************************)
\* const batchSize = 50
batchSize == 50

\* Number of users User.find returns for the audience.
RecipientCounts == {1, 50, 51, 101}

\* The recipients whose email send, or whose record update, can fail.
FlakyRecipients == {1, 2, 51}

Min(a, b) == IF a < b THEN a ELSE b

\* recipients.slice(i, i + batchSize), as recipient numbers.
Batch(i, n) == (i + 1)..Min(i + batchSize, n)

OtherVarsUnchanged == UNCHANGED <<quiz, attempts, now, pc, loc, res, issued>>

AnnounceRespond(a, status) == ann' = [a EXCEPT !.pc = "done", !.res = status]

\* The handler up to announcement.save(); ok = FALSE is a store error,
\* which the handler's catch answers with 500.
PostAnnouncement(n, status, sendEmail, ok) ==
  /\ ann.pc = "idle"
  /\ OtherVarsUnchanged
  /\ IF ~ok THEN AnnounceRespond(ann, 500)
     ELSE LET a == [ann EXCEPT !.stored = TRUE, !.status = status,
                               !.sendEmail = sendEmail, !.n = n]
          IN IF status = "published"
             THEN ann' = [a EXCEPT !.pc = "recipients"]
             ELSE AnnounceRespond(a, 201)

\* createRecipientsAndSendEmails: User.find and createForAnnouncement; an
\* error is caught there and the handler answers 201.
CreateRecipients(ok) ==
  /\ ann.pc = "recipients"
  /\ OtherVarsUnchanged
  /\ IF ~ok THEN AnnounceRespond(ann, 201)
     ELSE IF ann.sendEmail
     THEN ann' = [ann EXCEPT !.created = TRUE, !.pc = "batch", !.i = 0]
     ELSE AnnounceRespond([ann EXCEPT !.created = TRUE], 201)

\* A batch loop in which a failed send rejects Promise.all: the error is
\* rethrown by sendAnnouncementEmail and caught by the caller.
SendBatchRejecting(failed, unrecorded) ==
  /\ ann.pc = "batch"
  /\ ann.i < ann.n
  /\ failed \subseteq Batch(ann.i, ann.n) \cap FlakyRecipients
  /\ unrecorded \subseteq (Batch(ann.i, ann.n) \cap FlakyRecipients) \ failed
  /\ OtherVarsUnchanged
  /\ LET batch == Batch(ann.i, ann.n)
         a == [ann EXCEPT !.attempted = @ \cup batch,
                          !.failed = @ \cup failed,
                          !.recorded = @ \cup (batch \ (failed \cup unrecorded)),
                          !.i = @ + batchSize]
     IN IF failed \cup unrecorded # {}
        THEN AnnounceRespond(a, 201)
        ELSE ann' = a

\* sendAnnouncementEmail, one turn of the loop: Promise.all over the batch
\* of sendSingleAnnouncementEmail.  failed are the recipients whose
\* sendEmail throws, unrecorded those whose findOneAndUpdate throws; both
\* errors are caught per recipient.
SendBatch(failed, unrecorded) ==
  /\ ann.pc = "batch"
  /\ ann.i < ann.n
  /\ failed \subseteq Batch(ann.i, ann.n) \cap FlakyRecipients
  /\ unrecorded \subseteq (Batch(ann.i, ann.n) \cap FlakyRecipients) \ failed
  /\ OtherVarsUnchanged
  /\ LET batch == Batch(ann.i, ann.n)
     IN ann' = [ann EXCEPT !.attempted = @ \cup batch,
                           !.failed = @ \cup failed,
                           !.recorded = @ \cup (batch \ (failed \cup unrecorded)),
                           !.i = @ + batchSize]

\* After the loop: announcement.emailSent = true and announcement.save()
\* (an error is caught by createRecipientsAndSendEmails), then 201.
MarkEmailSent(ok) ==
  /\ ann.pc = "batch"
  /\ ann.i >= ann.n
  /\ OtherVarsUnchanged
  /\ AnnounceRespond([ann EXCEPT !.emailSent = ok], 201)

InitAnnouncements ==
  /\ quiz = InitQuiz(<<QMultipleChoice(1), QShortAnswer>>, 1)
  /\ attempts = <<>>
  /\ now = 1
  /\ pc = [r \in Reqs |-> "idle"]
  /\ loc = [r \in Reqs |-> IdleLoc]
  /\ res = [r \in Reqs |-> NoRes]
  /\ issued = 0
  /\ ann = NoAnnouncement

NextAnnouncements ==
  \/ \E n \in RecipientCounts, status \in {"draft", "published"},
        sendEmail \in BOOLEAN, ok \in BOOLEAN :
       PostAnnouncement(n, status, sendEmail, ok)
  \/ \E ok \in BOOLEAN : CreateRecipients(ok)
  \/ \E failed \in SUBSET FlakyRecipients, unrecorded \in SUBSET FlakyRecipients :
       SendBatch(failed, unrecorded)
  \/ \E ok \in BOOLEAN : MarkEmailSent(ok)

SpecAnnouncements == InitAnnouncements /\ [][NextAnnouncements]_vars

(***************************************************************************)
(* The submit handler on bodies of any shape: a student has started an     *)
(* attempt on a quiz of three questions and submits bodies whose responses *)
(* may name questions the quiz does not have.                              *)
(***************************************************************************)
Paris == <<"P", "a", "r", "i", "s">>

GradingQuestions ==
  << Question("q1", "multiple_choice", Num(0), 1),
     Question("q2", "short_answer", Str(Paris), 2),
     Question("q3", "true_false", Bool(FALSE), 1) >>

\* The answers to q2 of the examples of the grading rules.
ParisPadded == <<" ", " ">> \o ToLowerCase(Paris) \o <<" ", " ">>
ParisFrance == Paris \o <<",", " ", "F", "r", "a", "n", "c", "e">>
London == <<"L", "o", "n", "d", "o", "n">>

\* Elements of a submitted responses array; "zz" is the id of no question,
\* and a response may leave timeSpentSeconds out.
GradingResponseValues ==
  { Response("q1", Num(0), Missing),
    Response("q2", Str(ParisPadded), 0), Response("q2", Str(ParisFrance), 0),
    Response("q2", Str(London), 0),
    Response("zz", Num(0), 0), Response("zz", Num(0), Missing) }
GradingResponseLists == SeqsUpTo(GradingResponseValues, MaxRespLen)

\* The attempt POST /api/quizzes/[id]/attempt creates for a student who has
\* no attempt yet.
FirstAttempt(student, q) ==
  PreSave(NewAttempt([IdleLoc EXCEPT !.user = student, !.count = 0, !.quiz = q]), 1)

InitGrading ==
  /\ quiz = InitQuiz(GradingQuestions, 1)
  /\ attempts = <<FirstAttempt("s1", quiz)>>
  /\ now = 1
  /\ pc = [r \in Reqs |-> "idle"]
  /\ loc = [r \in Reqs |-> IdleLoc]
  /\ res = [r \in Reqs |-> NoRes]
  /\ issued = 1
  /\ ann = NoAnnouncement

NextGrading ==
  \/ \E r \in Reqs, u \in Users, a \in 1..(Len(attempts) + 1) : SubmitLoad(r, u, a)
  \/ \E r \in Reqs, responses \in GradingResponseLists, time \in TimeValues,
        date \in ClockReads :
       SubmitSave(r, responses, time, date)
  \/ \E r \in Reqs : SubmitAnalyticsRead(r)
  \/ \E r \in Reqs : SubmitAnalyticsWrite(r)

SpecGrading == InitGrading /\ [][NextGrading]_vars

(***************************************************************************)
(* Submits on distinct attempts of one quiz: two students have an attempt  *)
(* in progress; issued counts the requests made from this state on.        *)
(***************************************************************************)
InitSubmits ==
  /\ quiz = InitQuiz(<<QMultipleChoice(1), QShortAnswer>>, 1)
  /\ attempts = <<FirstAttempt("s1", quiz), FirstAttempt("s2", quiz)>>
  /\ now = 1
  /\ pc = [r \in Reqs |-> "idle"]
  /\ loc = [r \in Reqs |-> IdleLoc]
  /\ res = [r \in Reqs |-> NoRes]
  /\ issued = 0
  /\ ann = NoAnnouncement

\* Bodies of at most one response.
ShortResponseLists == SeqsUpTo(ResponseValues, 1)

NextSubmits ==
  \/ \E r \in Reqs, u \in Users, a \in 1..(Len(attempts) + 1) : SubmitLoad(r, u, a)
  \/ \E r \in Reqs, responses \in ShortResponseLists, time \in TimeValues,
        date \in ClockReads :
       SubmitSave(r, responses, time, date)
  \/ \E r \in Reqs : SubmitAnalyticsRead(r)
  \/ \E r \in Reqs : SubmitAnalyticsWrite(r)

SpecSubmits == InitSubmits /\ [][NextSubmits]_vars

(***************************************************************************)
(* The quiz-taking client (QuizTaker): the student selects answers, and    *)
(* submitQuiz builds the body of the submit request from them.             *)
(***************************************************************************)
\* A quiz of one multiple_choice and one true_false question.
ClientQuestions(optionIndex, truth) ==
  << Question("q1", "multiple_choice", Num(optionIndex), 1),
     Question("q3", "true_false", Bool(truth), 1) >>

\* What handleResponseChange can store for a question: parseInt(value) of
\* a radio item for multiple_choice, value === 'true' for true_false;
\* Undefined: the question has no entry in the responses record.
Selectable(question) ==
  CASE question.type = "multiple_choice" -> {Undefined, Num(0), Num(1)}
    [] question.type = "true_false" -> {Undefined, Bool(TRUE), Bool(FALSE)}
    [] OTHER -> {Undefined}

\* The responses record of the component, by question id.
Selections(questions) ==
  {sel \in [{questions[i].id : i \in DOMAIN questions} ->
              UNION {Selectable(questions[i]) : i \in DOMAIN questions}] :
     \A i \in DOMAIN questions : sel[questions[i].id] \in Selectable(questions[i])}

\* Math.floor(timeSpent / 60)
ClientTimeValues == {0, 1}

\* submissionData.responses of submitQuiz: answer is responses[q.id] || "".
SubmissionData(questions, responses) ==
  [i \in DOMAIN questions |->
     Response(questions[i].id,
              IF Truthy(responses[questions[i].id])
              THEN responses[questions[i].id] ELSE Str(<<>>),
              0)]

\* submitQuiz, received by the submit handler of request r.
ClientSubmit(r, responses, time, date) ==
  SubmitSave(r, SubmissionData(quiz.questions, responses), time, date)

InitClient ==
  /\ \E optionIndex \in {0, 1}, truth \in BOOLEAN :
       quiz = InitQuiz(ClientQuestions(optionIndex, truth), 1)
  /\ attempts = <<FirstAttempt("s1", quiz)>>
  /\ now = 1
  /\ pc = [r \in Reqs |-> "idle"]
  /\ loc = [r \in Reqs |-> IdleLoc]
  /\ res = [r \in Reqs |-> NoRes]
  /\ issued = 1
  /\ ann = NoAnnouncement

NextClient ==
  \/ \E r \in Reqs, u \in Users, a \in 1..(Len(attempts) + 1) : SubmitLoad(r, u, a)
  \/ \E r \in Reqs, responses \in Selections(quiz.questions),
        time \in ClientTimeValues, date \in ClockReads :
       ClientSubmit(r, responses, time, date)
  \/ \E r \in Reqs : SubmitAnalyticsRead(r)
  \/ \E r \in Reqs : SubmitAnalyticsWrite(r)

SpecClient == InitClient /\ [][NextClient]_vars

(***************************************************************************)
(* Properties.                                                             *)
(***************************************************************************)
Finished(r, op) == pc[r] = "idle" /\ res[r].op = op

\* Two start requests of one student that overlapped, both answered.
RacedStarts(r1, r2) ==
  /\ r1 # r2
  /\ Finished(r1, "start") /\ res[r1].overlapped
  /\ Finished(r2, "start") /\ res[r2].overlapped

\* C1: in every reachable state each (student, quiz) pair has at most one
\* attempt with status in_progress, whatever the interleaving of start,
\* submit and progress-save requests.
C1_AtMostOneInProgress ==
  \A s \in Students : Cardinality(InProgressIds(s)) <= 1

\* Two start requests raced, one of them created the attempt, and the pair
\* has one attempt in progress.
C1_Witness ==
  \E r1, r2 \in Reqs :
    /\ RacedStarts(r1, r2)
    /\ res[r1].status = 201
    /\ res[r1].freshAtIssue /\ res[r2].freshAtIssue
    /\ attempts[res[r1].aid].status = "in_progress"
    /\ Cardinality(InProgressIds(attempts[res[r1].aid].student)) = 1

\* The request passed the admission checks (role, quiz found and published,
\* due date, attempt limit).
Admitted(r) == res[r].status \notin {403, 404}

\* C2: two concurrent start requests of one student, issued when the pair
\* has no attempt in progress and both admitted, end with one 201 (created)
\* and one 200 (resumed) that reference the same attempt; neither ends in
\* an error.
C2_OneCreatedOneResumed ==
  \A r1, r2 \in Reqs :
    (/\ RacedStarts(r1, r2)
     /\ res[r1].freshAtIssue /\ res[r2].freshAtIssue
     /\ Admitted(r1) /\ Admitted(r2))
      => /\ {res[r1].status, res[r2].status} = {200, 201}
         /\ res[r1].aid = res[r2].aid

\* C3: a start request issued when the student's terminal attempts on the
\* quiz number at least settings.maxAttempts is answered 403, and no step
\* of it changes the attempt collection.
C3_LimitRejected ==
  /\ [](\A r \in Reqs :
          (res[r].op = "start" /\ res[r].limitAtIssue)
            => (res[r].status = 403 /\ res[r].aid = 0))
  /\ [][\A r \in Reqs :
          (loc[r].op = "start" /\ loc[r].limitAtIssue /\ pc'[r] # pc[r])
            => attempts' = attempts]_vars

\* A student with a completed attempt on a published quiz without due date
\* asked for another attempt beyond the limit and got 403.
C3_Witness ==
  \E r \in Reqs :
    /\ Finished(r, "start") /\ res[r].limitAtIssue /\ res[r].status = 403
    /\ issued = 3 /\ Len(attempts) = 1
    /\ attempts[1].status = "completed"
    /\ quiz.exists /\ quiz.status = "published" /\ quiz.dueDate = 0

\* The step in which request r saves the graded attempt (the submit
\* succeeded in storing its result).
SubmitStored(r) == pc[r] = "submit_save" /\ pc'[r] = "submit_stats_read"

\* The responses stored for question q.
ResponsesFor(doc, q) ==
  {i \in DOMAIN doc.responses : doc.responses[i].questionId = q.id}

\* C4: a successful submit on a quiz with N questions stores exactly N
\* graded responses, one for each question of the quiz, whatever the
\* submitted list contains.
C4_GradesEveryQuestion ==
  [][\A r \in Reqs :
       SubmitStored(r) =>
         LET questions == loc[r].quiz.questions
             doc == attempts'[loc[r].aid]
         IN /\ Len(doc.responses) = Len(questions)
            /\ \A i \in DOMAIN questions :
                 Cardinality(ResponsesFor(doc, questions[i])) = 1]_vars

\* C5: in every reachable state every attempt has score <= maxScore.
C5_ScoreAtMostMaxScore ==
  \A a \in AttemptIds : attempts[a].score <= attempts[a].maxScore

\* C6: after every successful submit the attempt's persisted percentage is
\* round(100 * score / maxScore) of its own score and maxScore, and lies in
\* 0..100.
C6_PercentageOfOwnScore ==
  \A a \in AttemptIds :
    attempts[a].status = "completed" =>
      /\ attempts[a].percentage
           = RoundDiv(100 * attempts[a].score, attempts[a].maxScore)
      /\ attempts[a].percentage >= 0
      /\ attempts[a].percentage <= 100

\* C7: a submit request of the owner on an attempt that is already completed
\* is answered 400 and leaves the attempts unchanged; and completedAt, once
\* assigned, is never assigned again.
C7_SecondSubmitRejected ==
  /\ [][\A r \in Reqs, a \in AttemptIds :
          (SubmitLoad(r, attempts[a].student, a) /\ attempts[a].status = "completed")
            => (res'[r].status = 400 /\ attempts' = attempts)]_vars
  /\ [][\A a \in AttemptIds :
          attempts[a].completedAt # 0
            => attempts'[a].completedAt = attempts[a].completedAt]_vars

\* C8: once an attempt's status is completed, abandoned or time_expired, no
\* step of any request changes that status.
C8_TerminalStatusIsFinal ==
  [][\A a \in AttemptIds :
       attempts[a].status \in TerminalStatuses
         => /\ a \in DOMAIN attempts'
            /\ attempts'[a].status = attempts[a].status]_vars

\* A progress save that had loaded the attempt while it was in progress
\* wrote its placeholders after the attempt was completed, and the attempt
\* is still completed.
C8_Witness ==
  \E r \in Reqs :
    /\ Finished(r, "progress") /\ res[r].status = 200
    /\ attempts[res[r].aid].status = "completed"
    /\ attempts[res[r].aid].score > 0
    /\ attempts[res[r].aid].responses # <<>>
    /\ \A i \in DOMAIN attempts[res[r].aid].responses :
         ~attempts[res[r].aid].responses[i].isCorrect

\* The client sends the answer "" for a question the student left open.
Unanswered(responses, q) ==
  \A i \in DOMAIN responses :
    responses[i].questionId = q.id => responses[i].answer = Str(<<>>)

\* C9: on submit every question the student did not answer (absent from the
\* list, or sent with the answer "") is recorded with isCorrect = FALSE and
\* pointsEarned = 0, for every question type.
C9_UnansweredScoresNothing ==
  [][\A r \in Reqs, responses \in ResponseLists, time \in TimeValues,
        date \in ClockReads :
       (SubmitSave(r, responses, time, date) /\ SubmitStored(r)) =>
         LET questions == loc[r].quiz.questions
             doc == attempts'[loc[r].aid]
         IN \A i \in DOMAIN questions :
              Unanswered(responses, questions[i]) =>
                /\ ResponsesFor(doc, questions[i]) # {}
                /\ \A j \in ResponsesFor(doc, questions[i]) :
                     /\ ~doc.responses[j].isCorrect
                     /\ doc.responses[j].pointsEarned = 0]_vars

\* C10: a submit whose analytics update fails still answers 200: every
\* response given after the graded attempt was saved is the 200 result.
C10_AnalyticsFailureStill200 ==
  [][\A r \in Reqs :
       (pc[r] \in {"submit_stats_read", "submit_stats_write"} /\ pc'[r] = "idle")
         => res'[r].status = 200]_vars

\* The step in which request r's analytics update fails (answered 500).
AnalyticsFailed(r) ==
  /\ pc[r] \in {"submit_stats_read", "submit_stats_write"}
  /\ pc'[r] = "idle"
  /\ res'[r].status = 500

\* C11: the graded attempt is stored before the analytics update runs and a
\* failing update does not undo it.  The save of a submit (on an attempt no
\* other request wrote since the submit loaded it) stores status completed,
\* the graded responses, their score and the percentage of that score; while
\* the analytics update runs the attempt is completed; the failing step
\* leaves the attempt collection as it is.
C11_StoredBeforeAnalytics ==
  /\ [][\A r \in Reqs, responses \in ResponseLists, time \in TimeValues,
           date \in ClockReads :
          (/\ SubmitSave(r, responses, time, date)
           /\ SubmitStored(r)
           /\ attempts[loc[r].aid] = loc[r].attempt)
            => LET doc == attempts'[loc[r].aid]
                   graded == GradeResponses(loc[r].quiz.questions, responses)
               IN /\ doc.status = "completed"
                  /\ doc.responses = graded
                  /\ doc.score = TotalScore(graded)
                  /\ doc.percentage = RoundDiv(100 * doc.score, doc.maxScore)]_vars
  /\ [](\A r \in Reqs :
          pc[r] \in {"submit_stats_read", "submit_stats_write"}
            => attempts[loc[r].aid].status = "completed")
  /\ [][\A r \in Reqs : AnalyticsFailed(r) => attempts' = attempts]_vars

\* A student started an attempt and submitted it with a right answer; the
\* analytics update failed (500) and the attempt is stored completed with
\* its score.
C11_Witness ==
  \E r \in Reqs :
    /\ Finished(r, "submit") /\ res[r].status = 500
    /\ issued = 2 /\ Len(attempts) = 1
    /\ attempts[1].status = "completed"
    /\ attempts[1].score > 0
    /\ attempts[1].responses # <<>>

\* C12: at each submit the percentage handed to Quiz.updateAnalytics is the
\* percentage stored on the attempt (the one getQuizStatistics averages).
C12_AnalyticsPercentageIsStored ==
  [][\A r \in Reqs :
       SubmitStored(r) => loc'[r].percentage = attempts'[loc[r].aid].percentage]_vars

\* The mean, in hundredths and rounded to two decimals, of field f of the
\* attempts.
MeanOf(f) ==
  RoundDiv(100 * SumSeq([i \in DOMAIN attempts |-> attempts[i][f]]), Len(attempts))

\* The analytics hold the count and the rounded means of the submissions.
AnalyticsAreMeans ==
  /\ quiz.totalAttempts = Len(attempts)
  /\ quiz.averageScore = MeanOf("percentage")
  /\ quiz.averageTimeMinutes = MeanOf("timeSpentMinutes")
  /\ quiz.completionRate = 10000

\* C13: from fresh analytics, after k completed submissions made one after
\* the other the quiz holds totalAttempts = k, averageScore and
\* averageTimeMinutes equal to the means of the percentages and of the
\* times rounded to two decimals, and completionRate = 100.
C13_AnalyticsAreMeans ==
  Len(attempts) >= 1 => AnalyticsAreMeans

\* C13 as amended: the same for k <= 6 submissions with whole-number
\* percentages and times.
C13_AnalyticsAreMeansUpToSix ==
  (Len(attempts) >= 1 /\ Len(attempts) <= 6) => AnalyticsAreMeans

\* (80%, 10 min) then (60%, 20 min): averageScore 70, averageTimeMinutes 15,
\* completionRate 100, two attempts.
C13_Witness ==
  /\ Len(attempts) = 2
  /\ attempts[1].percentage = 80 /\ attempts[1].timeSpentMinutes = 10
  /\ attempts[2].percentage = 60 /\ attempts[2].timeSpentMinutes = 20
  /\ quiz.totalAttempts = 2
  /\ quiz.averageScore = 7000
  /\ quiz.averageTimeMinutes = 1500
  /\ quiz.completionRate = 10000

\* The last step of a quiz DELETE by its author.
DeleteDone(r) == pc[r] = "delete_apply" /\ pc'[r] = "idle"

\* No other request wrote the quiz or added an attempt since the DELETE read
\* them.
DeleteUndisturbed(r) == quiz = loc[r].quiz /\ Len(attempts) = loc[r].count

\* C14: a quiz DELETE by its author removes the quiz record when no attempt
\* references the quiz; when at least one attempt (of any status) does, the
\* quiz record stays, with status archived; no attempt record is deleted.
C14_DeleteOrArchive ==
  [][\A r \in Reqs :
       DeleteDone(r) =>
         /\ attempts' = attempts
         /\ (Len(attempts) = 0 /\ quiz.exists)
              => (res'[r].status = 200 /\ ~quiz'.exists)
         /\ (Len(attempts) >= 1 /\ DeleteUndisturbed(r))
              => /\ res'[r].status = 200
                 /\ quiz' = [quiz EXCEPT !.status = "archived"]
                 /\ quiz'.exists]_vars

\* The author deleted a published quiz that has an attempt in progress: the
\* quiz is still there, archived, and so is the attempt.
C14_Witness ==
  \E r \in Reqs :
    /\ Finished(r, "quiz_delete") /\ res[r].status = 200
    /\ issued = 2
    /\ quiz.exists /\ quiz.status = "archived"
    /\ Len(attempts) = 1 /\ attempts[1].status = "in_progress"

\* The attempts of a student on the quiz.
AttemptsOf(student) == {a \in AttemptIds : attempts[a].student = student}

\* The step in which start request r inserts its new attempt.
StartInserted(r) ==
  /\ pc[r] = "start_insert"
  /\ pc'[r] = "idle"
  /\ Len(attempts') = Len(attempts) + 1

\* C15: in every reachable state the attemptNumber values of a (student,
\* quiz) pair's attempts are exactly 1..n, n being the number of the pair's
\* attempts, without duplicates; and each new attempt gets attemptNumber =
\* (number of the pair's terminal attempts) + 1.
C15_AttemptNumbersGapless ==
  /\ [](\A s \in Students :
          /\ {attempts[a].attemptNumber : a \in AttemptsOf(s)}
               = 1..Cardinality(AttemptsOf(s))
          /\ \A a, b \in AttemptsOf(s) :
               attempts[a].attemptNumber = attempts[b].attemptNumber => a = b)
  /\ [][\A r \in Reqs :
          StartInserted(r) =>
            attempts'[Len(attempts')].attemptNumber
              = getStudentAttemptCount(loc[r].user) + 1]_vars

\* A student has two attempts on the quiz, numbered 1 and 2.
C15_Witness ==
  \E s \in Students :
    /\ Cardinality(AttemptsOf(s)) = 2
    /\ Len(attempts) = 2
    /\ attempts[1].attemptNumber = 1 /\ attempts[1].status = "completed"
    /\ attempts[2].attemptNumber = 2 /\ attempts[2].status = "in_progress"

\* No step changes the maxScore of a stored attempt.
MaxScoreKept ==
  \A a \in AttemptIds : attempts'[a].maxScore = attempts[a].maxScore

\* C16: an attempt's maxScore equals the quiz's totalPoints at the moment
\* the attempt is created, and no later operation changes it.
C16_MaxScoreIsTotalPointsAtCreation ==
  [][/\ \A r \in Reqs :
          (StartInserted(r) /\ quiz.exists)
            => attempts'[Len(attempts')].maxScore = quiz.totalPoints
     /\ MaxScoreKept]_vars

\* C16 as amended: an attempt's maxScore equals the totalPoints of the quiz
\* as the start request read it before its admission checks, and no later
\* operation changes it.
C16_MaxScoreIsTotalPointsAsRead ==
  [][/\ \A r \in Reqs :
          StartInserted(r)
            => attempts'[Len(attempts')].maxScore = loc[r].quiz.totalPoints
     /\ MaxScoreKept]_vars

\* An attempt was started, the quiz's points were changed, the attempt was
\* submitted: it keeps the maxScore it was created with.
C16_Witness ==
  /\ Len(attempts) = 1
  /\ attempts[1].status = "completed"
  /\ attempts[1].maxScore = TotalPoints(<<QMultipleChoice(1), QShortAnswer>>)
  /\ quiz.exists
  /\ quiz.totalPoints = TotalPoints(<<QMultipleChoice(2), QShortAnswer>>)

\* Start request r, admitted, takes the step that looks for an attempt in
\* progress.
StartLooksForExisting(r) == pc[r] = "start_find" /\ pc'[r] # pc[r]

\* C17: a start request that passed the admission checks while the student
\* has an attempt in progress on the quiz answers 200 with that attempt,
\* creates no attempt and changes no field of a stored attempt; so does
\* every repetition of the request.
C17_ResumeIsIdempotent ==
  /\ [][\A r \in Reqs :
          (StartLooksForExisting(r) /\ InProgressIds(loc[r].user) # {})
            => /\ pc'[r] = "idle"
               /\ res'[r].status = 200
               /\ InProgressIds(loc[r].user) = {res'[r].aid}
               /\ attempts' = attempts]_vars
  /\ [](\A r \in Reqs :
          (Finished(r, "start") /\ res[r].status = 200)
            => res[r].aid \in AttemptIds)

\* Three start requests of one student, one after the other: the last one
\* found the attempt in progress and answered 200 with it; there is still
\* one attempt, as the first request created it.
C17_Witness ==
  \E r \in Reqs :
    /\ Finished(r, "start") /\ res[r].status = 200 /\ res[r].aid = 1
    /\ ~res[r].overlapped /\ ~res[r].freshAtIssue
    /\ issued = 3 /\ Len(attempts) = 1
    /\ attempts[1] = PreSave(NewAttempt([user |-> attempts[1].student, count |-> 0,
                                         quiz |-> quiz]), now)

\* C18: a start request of a student on a quiz whose status is not
\* published, or whose due date is earlier than the current time, is
\* answered 403 at once and leaves the stored attempts unchanged.
C18_UnavailableQuizRejected ==
  [][\A r \in Reqs, u \in Students, date \in ClockReads :
       (/\ StartLoadQuiz(r, u, date)
        /\ quiz.exists
        /\ \/ quiz.status # "published"
           \/ (quiz.dueDate # 0 /\ quiz.dueDate < date))
         => /\ pc'[r] = "idle"
            /\ res'[r].status = 403
            /\ res'[r].aid = 0
            /\ attempts' = attempts]_vars

\* The author set a due date on the published quiz; a student asked for an
\* attempt after that date and got 403; no attempt is stored.
C18_Witness ==
  \E r \in Reqs :
    /\ Finished(r, "start") /\ res[r].status = 403
    /\ issued = 2
    /\ quiz.exists /\ quiz.status = "published"
    /\ quiz.dueDate # 0 /\ quiz.dueDate < now
    /\ attempts = <<>>

\* The passing score the quiz is configured with: settings.passingScore,
\* whatever value in 0..100 it is set to, and 70 only when it is unset.
ConfiguredPassingScore(q) ==
  IF q.passingScore # Missing THEN q.passingScore ELSE DefaultPassingScore

\* The rounded percentage of the completed attempts that reach the
\* configured passing score.
ExpectedPassRate ==
  LET completed == {a \in AttemptIds : attempts[a].status = "completed"}
      passed == {a \in completed :
                   attempts[a].percentage >= ConfiguredPassingScore(quiz)}
  IN RoundDiv(100 * Cardinality(passed), Cardinality(completed))

\* C19: the passRate of the statistics the author's GET returns is the
\* rounded percentage of completed attempts whose percentage is at least
\* the quiz's settings.passingScore, for every value 0..100 it is set to;
\* 70 is used only when passingScore is unset.
C19_PassRateUsesPassingScore ==
  \A r \in Reqs :
    (/\ Finished(r, "quiz_get") /\ res[r].status = 200
     /\ res[r].statistics.totalAttempts = Len(attempts)
     /\ Len(attempts) >= 1)
      => res[r].statistics.passRate = ExpectedPassRate

\* The publish request went as far as sending the emails and has answered.
EmailRunDone == ann.pc = "done" /\ ann.created /\ ann.sendEmail

\* C20: during announcement publish a failed email send to one recipient
\* does not stop the sends to the other recipients of its batch or of the
\* later batches (batches of 50), and the publish request succeeds (201)
\* with the announcement stored as published.
C20_FailedSendStopsNothing ==
  /\ [][\A failed, unrecorded \in SUBSET FlakyRecipients :
          SendBatch(failed, unrecorded)
            => /\ ann'.attempted = ann.attempted \cup Batch(ann.i, ann.n)
               /\ ann'.pc = "batch"
               /\ ann'.i = ann.i + batchSize]_vars
  /\ [](EmailRunDone
          => /\ ann.attempted = 1..ann.n
             /\ ann.recorded \cap ann.failed = {}
             /\ ann.res = 201
             /\ ann.stored /\ ann.status = "published")

\* 51 recipients: the send to recipient 1 failed, the sends to recipient 2
\* (same batch) and to recipient 51 (next batch) were made and recorded, and
\* the request answered 201 with the announcement published.
C20_Witness ==
  /\ EmailRunDone
  /\ ann.n = 51
  /\ 1 \in ann.failed
  /\ {2, 51} \subseteq ann.recorded
  /\ ann.res = 201 /\ ann.status = "published"

\* The responses of a body that name a question of the quiz.
KnownResponses(questions, responses) ==
  SelectSeq(responses, LAMBDA x : HasQuestion(questions, x.questionId))

\* The submit of request r ends its grading step: saved, or failed.
SubmitGraded(r) == pc[r] = "submit_save" /\ pc'[r] # "submit_save"

\* C21: on submit a response whose questionId matches no question of the
\* quiz is stored with isCorrect = false and pointsEarned = 0, adds nothing
\* to the score, and never makes the submit fail: a body that is saved
\* without its unknown-question responses is saved with them, with the
\* same score (for a submit no other request has written the attempt
\* under).
C21_UnknownQuestionNeverFails ==
  [][\A r \in Reqs, responses \in GradingResponseLists, time \in TimeValues,
        date \in ClockReads :
       LET l == loc[r]
           known == KnownResponses(l.quiz.questions, responses)
           knownDoc == SubmittedAttempt(l.attempt, l.quiz.questions,
                                        l.quiz.totalPoints, known, time, date)
       IN (/\ SubmitSave(r, responses, time, date)
           /\ attempts[l.aid] = l.attempt
           /\ ValidAttempt(knownDoc))
            => /\ pc'[r] = "submit_stats_read"
               /\ attempts'[l.aid].score = knownDoc.score
               /\ \A i \in DOMAIN attempts'[l.aid].responses :
                    LET x == attempts'[l.aid].responses[i]
                    IN ~HasQuestion(l.quiz.questions, x.questionId)
                         => ~x.isCorrect /\ x.pointsEarned = 0]_vars

\* sub occurs in s: s is some prefix, then sub, then some suffix.
IsSubstring(s, sub) ==
  \/ sub = <<>>
  \/ \E i \in 1..(Len(s) - Len(sub) + 1) : SubSeq(s, i, i + Len(sub) - 1) = sub

\* The rule of the short_answer grader on two strings.
ShortAnswerMatches(submitted, correct) ==
  LET x == ToLowerCase(Trim(submitted))
      y == ToLowerCase(Trim(correct))
  IN x = y \/ IsSubstring(x, y) \/ IsSubstring(y, x)

\* The stored responses of the completed attempts.
GradedResponses ==
  UNION {Range(attempts[a].responses) :
           a \in {b \in AttemptIds : attempts[b].status = "completed"}}

\* C22: for a short_answer question the grader marks a submitted string
\* correct exactly when, after trimming and lower-casing both strings, they
\* are equal or one is a substring of the other, and awards question.points
\* if correct and 0 otherwise; for the correct answer "Paris", "  paris  "
\* and "Paris, France" are correct and "London" is incorrect.
C22_ShortAnswerGrading ==
  \A x \in GradedResponses :
    (HasQuestion(quiz.questions, x.questionId) /\ x.answer.t = "string")
      => LET q == FindQuestion(quiz.questions, x.questionId)
         IN q.type = "short_answer"
              => /\ x.isCorrect <=> ShortAnswerMatches(x.answer.s, q.correctAnswer.s)
                 /\ x.pointsEarned = IF x.isCorrect THEN q.points ELSE 0
                 /\ (q.correctAnswer.s = Paris
                       /\ x.answer.s \in {<<" ", " ", "p", "a", "r", "i", "s", " ", " ">>,
                                          ParisFrance})
                      => x.isCorrect
                 /\ (q.correctAnswer.s = Paris /\ x.answer.s = London)
                      => ~x.isCorrect

\* A completed attempt that answered "Paris, France" (2 points) and
\* "London" (0 points) to the question whose answer is "Paris".
C22_Witness ==
  \E x, y \in GradedResponses :
    /\ x.questionId = "q2" /\ x.answer = Str(ParisFrance)
    /\ x.isCorrect /\ x.pointsEarned = 2
    /\ y.questionId = "q2" /\ y.answer = Str(London)
    /\ ~y.isCorrect /\ y.pointsEarned = 0

\* Request r is past the checks of the submit or the progress-save handler.
PastOwnerCheck(r) ==
  pc[r] \in {"submit_save", "submit_stats_read", "submit_stats_write",
            "progress_save"}

\* C23: a submit or progress-save request made by a user who is not the
\* attempt's student is answered 403 and leaves the attempts and the quiz
\* (its analytics included) unchanged; only requests of the attempt's
\* student get past the checks of the two handlers.
C23_NotOwnerRejected ==
  /\ [][\A r \in Reqs, u \in Users, a \in AttemptIds :
          (/\ attempts[a].student # u
           /\ SubmitLoad(r, u, a) \/ ProgressLoad(r, u, a))
            => /\ res'[r].status = 403
               /\ pc'[r] = "idle"
               /\ attempts' = attempts
               /\ quiz' = quiz]_vars
  /\ [](\A r \in Reqs :
          PastOwnerCheck(r) => attempts[loc[r].aid].student = loc[r].user)

\* A submit on an attempt in progress was answered 403 (the submit handler
\* answers 403 only to a user who is not the attempt's student), and the
\* attempt is still in progress with no response stored.
C23_Witness ==
  \E r \in Reqs :
    /\ res[r].op = "submit" /\ res[r].status = 403
    /\ res[r].aid \in AttemptIds
    /\ attempts[res[r].aid].status = "in_progress"
    /\ attempts[res[r].aid].responses = <<>>

\* A submitted response as an ungraded placeholder.
Ungraded(x) ==
  [questionId |-> x.questionId, answer |-> x.answer, isCorrect |-> FALSE,
   pointsEarned |-> 0,
   timeSpentSeconds |-> IF x.timeSpentSeconds = Missing THEN 0 ELSE x.timeSpentSeconds]

\* The stored attempt after one more progress-save with the same body, made
\* by a request that loads the attempt as it is stored.
SavedAgain(stored, hasResponses, responses, time, date) ==
  WriteModified(stored, stored,
                PreSave(ProgressAttempt(stored, hasResponses, responses, time), date))

\* C24: a progress-save on an in_progress attempt replaces the responses by
\* the submitted answers as ungraded placeholders (isCorrect = false,
\* pointsEarned = 0), leaves the status in_progress and the score
\* unchanged, and the same save applied once more leaves the attempt as it
\* is (for a save no other request has written the attempt under).
C24_ProgressSaveIdempotent ==
  [][\A r \in Reqs, hasResponses \in BOOLEAN, responses \in ProgressLists,
        time \in TimeValues :
       LET a == loc[r].aid
       IN (/\ ProgressSave(r, hasResponses, responses, time)
           /\ attempts[a].status = "in_progress"
           /\ attempts[a] = loc[r].attempt
           /\ res'[r].status = 200)
            => /\ hasResponses
                    => attempts'[a].responses
                         = [i \in DOMAIN responses |-> Ungraded(responses[i])]
               /\ time # Missing => attempts'[a].timeSpentMinutes = time
               /\ attempts'[a].status = "in_progress"
               /\ attempts'[a].score = attempts[a].score
               /\ SavedAgain(attempts'[a], hasResponses, responses, time, now')
                    = attempts'[a]]_vars

\* A progress-save was answered 200 on an attempt that is in progress and
\* holds an ungraded answer and the saved time.
C24_Witness ==
  \E r \in Reqs :
    /\ res[r].op = "progress" /\ res[r].status = 200
    /\ attempts[res[r].aid].status = "in_progress"
    /\ attempts[res[r].aid].timeSpentMinutes = 1
    /\ Len(attempts[res[r].aid].responses) = 1
    /\ ~attempts[res[r].aid].responses[1].isCorrect

\* The progress-save of request r ends.
ProgressSaved(r) == pc[r] = "progress_save" /\ pc'[r] = "idle"

\* C25: a progress-save never modifies an attempt that is no longer
\* in_progress: whatever the interleaving with a submit on the same
\* attempt, a completed attempt keeps the graded responses and the
\* timeSpentMinutes of the submit.
C25_ProgressSaveOnlyInProgress ==
  [][\A r \in Reqs :
       (ProgressSaved(r) /\ attempts[loc[r].aid].status # "in_progress")
         => /\ attempts'[loc[r].aid].responses = attempts[loc[r].aid].responses
            /\ attempts'[loc[r].aid].timeSpentMinutes
                 = attempts[loc[r].aid].timeSpentMinutes]_vars

\* C26: in every reachable state every stored attempt references a quiz
\* record that still exists, whatever the interleaving of a quiz DELETE
\* with start-attempt requests on that quiz.
C26_AttemptsReferenceExistingQuiz ==
  AttemptIds # {} => quiz.exists

\* Two submit requests, one on each attempt, are all the requests made,
\* and both have been answered 200.
BothSubmitsFinished ==
  /\ issued = 2
  /\ \A r \in Reqs : pc[r] = "idle" /\ res[r].op = "submit" /\ res[r].status = 200
  /\ {res[r].aid : r \in Reqs} = {1, 2}

\* C27: for every interleaving of submit requests on distinct attempts of
\* the same quiz, once all of them have finished analytics.totalAttempts is
\* the number of completed attempts of the quiz and averageScore is the
\* mean of their percentages: no aggregator update is lost.
C27_NoLostAnalyticsUpdate ==
  BothSubmitsFinished
    => /\ quiz.totalAttempts
            = Cardinality({a \in AttemptIds : attempts[a].status = "completed"})
       /\ quiz.averageScore
            = RoundDiv(100 * (attempts[1].percentage + attempts[2].percentage), 2)

CompletedIds == {a \in AttemptIds : attempts[a].status = "completed"}

\* C28: for every interleaving of two submit requests on the same
\* in_progress attempt at most one of them completes the attempt (a submit
\* saves only over an attempt that is still in_progress), and the quiz
\* analytics are updated at most once for that attempt (totalAttempts never
\* exceeds the number of completed attempts).
C28_SubmitCountsOnce ==
  /\ [][\A r \in Reqs :
          SubmitStored(r) => attempts[loc[r].aid].status = "in_progress"]_vars
  /\ [](quiz.exists => quiz.totalAttempts <= Cardinality(CompletedIds))

\* C29: in every reachable state no attempt has status time_expired or
\* abandoned, and an in_progress attempt leaves in_progress only through
\* the save of a submit, which completes it; under every other step it
\* stays in_progress.
C29_OnlySubmitLeavesInProgress ==
  /\ [](\A a \in AttemptIds : attempts[a].status \in {"in_progress", "completed"})
  /\ [][\A a \in AttemptIds :
          (attempts[a].status = "in_progress" /\ attempts'[a].status # "in_progress")
            => /\ attempts'[a].status = "completed"
               /\ \E r \in Reqs : SubmitStored(r) /\ loc[r].aid = a]_vars

\* One attempt was completed by a submit while another student's attempt,
\* started before it, is still in progress.
C29_Witness ==
  \E a, b \in AttemptIds :
    /\ a < b
    /\ attempts[a].status = "in_progress"
    /\ attempts[b].status = "completed"
    /\ \E r \in Reqs : res[r].op = "submit" /\ res[r].status = 200 /\ res[r].aid = b

\* C30: the submit payload built by the quiz-taking client carries, for
\* every question the student answered, exactly the selected answer, for
\* every selectable value (option index 0 and the boolean false included),
\* so that a student who selected the correct answer of a multiple_choice
\* or true_false question is graded correct and earns its points.
C30_ClientSendsSelectedAnswer ==
  [][\A r \in Reqs, responses \in Selections(quiz.questions),
        time \in ClientTimeValues, date \in ClockReads :
       (/\ ClientSubmit(r, responses, time, date)
        /\ attempts[loc[r].aid] = loc[r].attempt
        /\ pc'[r] = "submit_stats_read")
         => \A i \in DOMAIN quiz.questions :
              LET q == quiz.questions[i]
                  x == attempts'[loc[r].aid].responses[i]
              IN responses[q.id] # Undefined
                   => /\ x.questionId = q.id
                      /\ x.answer = responses[q.id]
                      /\ responses[q.id] = q.correctAnswer
                           => x.isCorrect /\ x.pointsEarned = q.points]_vars

====
